---- MODULE Spec2Model ----
(***************************************************************************)
(* A model of migration_verifier: the provider contract                    *)
(* (core/providers/*.py), the migration / quality / correction pipeline    *)
(* (core/migration.py) and the pages that call it (app/main.py).           *)
(*                                                                         *)
(* A table is a record [exists, rows]; rows is the ordered recordset, one  *)
(* element per row, a row being the tuple of all of its column values      *)
(* (two rows are equal exactly when every column is equal).                *)
(***************************************************************************)
EXTENDS Integers, Sequences, FiniteSets, TLC

VARIABLES
    source,       \* migrate_table: the source table [exists, rows]
    dest,         \* migrate_table: the destination table [kind, exists, rows]
    dest0,        \* the destination table as it was before migrate_table
    chunk_size,   \* migrate_table: the chunk_size argument
    pc,           \* migrate_table: position in the function
    df,           \* migrate_table: the recordset read from the source
    i,            \* migrate_table: the loop offset of range(0, len(df), chunk_size)
    total,        \* migrate_table: the running total
    calls,        \* the dest.write_table calls issued so far, in call order
    reads,        \* the number of source.read_table calls issued so far
    ret,          \* <<>> while running or raised, <<value>> once returned
    table,        \* quality / corrections: the provider's table [kind, exists, rows]
    qpc,          \* quality / corrections: position of the caller
    analyzed,     \* check_table_quality: the recordset it read last
    report,       \* <<>>, or <<r>> with r the last report of check_table_quality
    before,       \* apply_corrections: the recordset it read (df)
    df2,          \* apply_corrections: the deduplicated recordset
    fixed,        \* <<>>, or <<n>> with n the last value apply_corrections returned
    prov,         \* a provider object [kind, configured, target, client, connected]
    last,         \* the last provider call: [op, raised, value, ...]
    page,         \* the application page that runs
    apc,          \* the position in the page function
    pending,      \* the mutating action the user asked for
    log,          \* permission probes and mutating calls of the page, in order
    dst,          \* page_migrate: the destination provider object (src is prov)
    released,     \* the providers of the page on which close() was called
    store,        \* a table of a connected provider [kind, bucket, exists, rows]
    tcall         \* the last write_table / delete_rows / delete_table call on it

mvars == <<source, dest, dest0, chunk_size, pc, df, i, total, calls, reads, ret>>

qvars == <<table, qpc, analyzed, report, before, df2, fixed>>

pvars == <<prov, last>>

avars == <<page, apc, pending, log, dst, released>>

tvars == <<store, tcall>>

nonMigrate == <<qvars, pvars, avars, tvars>>

nonQuality == <<mvars, pvars, avars, tvars>>

nonProvider == <<mvars, qvars, avars, tvars>>

nonApp == <<mvars, qvars, tvars>>

nonTable == <<mvars, qvars, pvars, avars>>

vars == <<mvars, qvars, pvars, avars, tvars>>

-----------------------------------------------------------------------------
(* Bounds of the model *)

MaxSrcLen == 4
MaxChunk == 3
MaxTblLen == 5
MaxStoreLen == 3
MaxDataLen == 2

Rows == {"A", "B", "C"}

Backends == {"sqlite", "redshift", "bigquery", "snowflake", "s3"}

Min(a, b) == IF a <= b THEN a ELSE b

RECURSIVE SeqsUpTo(_)
SeqsUpTo(n) ==
    IF n = 0 THEN {<<>>}
    ELSE LET S == SeqsUpTo(n - 1)
         IN  S \cup {Append(s, r) : s \in {t \in S : Len(t) = n - 1}, r \in Rows}

Range(s) == {s[k] : k \in 1..Len(s)}

-----------------------------------------------------------------------------
(* The provider contract: write_table on each backend.                     *)
(* fault = 0: every backend call of the method succeeds; fault = k: the    *)
(* k-th backend call of the method raises.  The result is                  *)
(* [raised, exists, rows, ret].                                            *)

Existing(tbl) == IF tbl.exists THEN tbl.rows ELSE <<>>

\* DataFrame.to_sql(table_name, engine, if_exists=if_exists): drops the table
\* (replace), creates it when it is absent, then inserts the rows as one
\* batch.
\* call 1: the DROP / CREATE TABLE statements; the table is as it was when
\*         they fail, and when a failed insert rolls them back with it
\* call 2: the INSERT batch, when the statements before it stay committed
\*         (the sqlite3 driver runs DDL outside the transaction; whether to_sql
\*         spans one transaction depends on the installed pandas)
ToSql(tbl, data, if_exists, fault) ==
    IF fault = 1
    THEN [raised |-> TRUE, exists |-> tbl.exists, rows |-> tbl.rows, ret |-> 0]
    ELSE IF fault = 2
    THEN [raised |-> TRUE, exists |-> TRUE,
          rows |-> IF if_exists = "replace" THEN <<>> ELSE Existing(tbl),
          ret |-> 0]
    ELSE [raised |-> FALSE, exists |-> TRUE,
          rows |-> IF if_exists = "replace" THEN data ELSE Existing(tbl) \o data,
          ret |-> Len(data)]

SQLiteWriteTable(tbl, data, if_exists, fault) == ToSql(tbl, data, if_exists, fault)

RedshiftWriteTable(tbl, data, if_exists, fault) == ToSql(tbl, data, if_exists, fault)

\* call 1: client.get_table(full) (append; NotFound when the table is absent)
\*         or client.delete_table(full) (replace; its exception is swallowed)
\* call 2: load_table_from_dataframe(df, full) + job.result()
BigQueryWriteTable(tbl, data, if_exists, fault) ==
    IF if_exists # "replace"
    THEN IF fault = 1 \/ ~tbl.exists \/ fault = 2
         THEN [raised |-> TRUE, exists |-> tbl.exists, rows |-> tbl.rows, ret |-> 0]
         ELSE [raised |-> FALSE, exists |-> TRUE, rows |-> tbl.rows \o data,
               ret |-> Len(data)]
    ELSE LET dropped == IF fault = 1 THEN tbl
                        ELSE [exists |-> FALSE, rows |-> <<>>]
         IN  IF fault = 2
             THEN [raised |-> TRUE, exists |-> dropped.exists, rows |-> dropped.rows,
                   ret |-> 0]
             ELSE [raised |-> FALSE, exists |-> TRUE,
                   rows |-> Existing(dropped) \o data, ret |-> Len(data)]

\* call 1: DROP TABLE IF EXISTS (replace only)
\* call 2: CREATE TABLE IF NOT EXISTS
\* call 3: write_pandas, whose nrows is returned
SnowflakeWriteTable(tbl, data, if_exists, fault) ==
    LET dropped == IF if_exists = "replace"
                   THEN [exists |-> FALSE, rows |-> <<>>]
                   ELSE [exists |-> tbl.exists, rows |-> tbl.rows]
        created == [exists |-> TRUE, rows |-> Existing(dropped)]
    IN  IF fault = 1 /\ if_exists = "replace"
        THEN [raised |-> TRUE, exists |-> tbl.exists, rows |-> tbl.rows, ret |-> 0]
        ELSE IF fault = 2
        THEN [raised |-> TRUE, exists |-> dropped.exists, rows |-> dropped.rows,
              ret |-> 0]
        ELSE IF fault = 3
        THEN [raised |-> TRUE, exists |-> TRUE, rows |-> created.rows, ret |-> 0]
        ELSE [raised |-> FALSE, exists |-> TRUE, rows |-> created.rows \o data,
              ret |-> Len(data)]

\* pd.concat([existing, df], ignore_index=True)
ConcatFrames(existing, data) == existing \o data

\* call 1: get_object + read_csv / read_parquet of the existing object
\*         (append only).  A ClientError is swallowed, whatever its cause: the
\*         object is taken to be absent (existing = pd.DataFrame()).  The key
\*         not being there is the ClientError of a call that was not made to
\*         fail.  (An exception of the read that is not a ClientError leaves
\*         the method as a failed call 2 does: the object is as it was.)
\* call 2: put_object of the whole serialized object, which replaces the
\*         object in one request or not at all
S3WriteTable(tbl, data, if_exists, fault) ==
    LET existing == IF if_exists = "append" /\ fault # 1 THEN Existing(tbl) ELSE <<>>
        out_df == IF existing # <<>> THEN ConcatFrames(existing, data) ELSE data
    IN  IF fault = 2
        THEN [raised |-> TRUE, exists |-> tbl.exists, rows |-> tbl.rows, ret |-> 0]
        ELSE [raised |-> FALSE, exists |-> TRUE, rows |-> out_df, ret |-> Len(data)]

\* The backend calls of write_table that can raise out of the method.
WriteFaults(kind, if_exists) ==
    CASE kind = "sqlite" -> {1, 2}
      [] kind = "redshift" -> {1, 2}
      [] kind = "bigquery" -> IF if_exists = "replace" THEN {2} ELSE {1, 2}
      [] kind = "snowflake" -> IF if_exists = "replace" THEN {1, 2, 3} ELSE {2, 3}
      [] kind = "s3" -> {2}

write_table(kind, tbl, data, if_exists, fault) ==
    CASE kind = "sqlite" -> SQLiteWriteTable(tbl, data, if_exists, fault)
      [] kind = "redshift" -> RedshiftWriteTable(tbl, data, if_exists, fault)
      [] kind = "bigquery" -> BigQueryWriteTable(tbl, data, if_exists, fault)
      [] kind = "snowflake" -> SnowflakeWriteTable(tbl, data, if_exists, fault)
      [] kind = "s3" -> S3WriteTable(tbl, data, if_exists, fault)

\* DROP TABLE without IF EXISTS: a table that is not there is an error
DropTableStrict(kind, tbl, fault) ==
    IF fault = 1 \/ ~tbl.exists
    THEN [raised |-> TRUE, exists |-> tbl.exists, rows |-> tbl.rows]
    ELSE [raised |-> FALSE, exists |-> FALSE, rows |-> <<>>]

\* delete_table: DROP TABLE IF EXISTS (sqlite, redshift, snowflake),
\* client.delete_table(full, not_found_ok=True) (bigquery),
\* client.delete_object (s3): one backend call, which removes the table when
\* it is there.  The result is [raised, exists, rows].
delete_table(kind, tbl, fault) ==
    IF fault = 1
    THEN [raised |-> TRUE, exists |-> tbl.exists, rows |-> tbl.rows]
    ELSE [raised |-> FALSE, exists |-> FALSE, rows |-> <<>>]

-----------------------------------------------------------------------------
(* The provider contract: delete_rows on each backend.                     *)
(* A predicate is [kind, matches]: kind "none" (None), "blank" (a string   *)
(* of spaces), "malformed" (the backend cannot parse it) or "where" (a     *)
(* well-formed one, true of the rows in matches).  fault = 1: the backend  *)
(* call that changes the table raises.  counted: the result object of the  *)
(* installed client library carries the affected-row count.  The result is *)
(* [raised, exists, rows, ret].                                            *)

Predicates ==
    {[kind |-> k, matches |-> {}] : k \in {"none", "blank", "malformed"}}
        \cup {[kind |-> "where", matches |-> S] :
                 S \in {{}, {"A"}, {"A", "B"}, Rows}}

\* the rows of d the predicate is not true of, in the order of d
Unmatched(d, S) == SelectSeq(d, LAMBDA x : x \notin S)

\* if where_clause and where_clause.strip(): ... WHERE {where_clause}
HasWhere(pred) == pred.kind \in {"malformed", "where"}

\* len(df): the size of the table before the deletion is reported
RowCountBefore(d, d2) == Len(d)

\* res.rowcount / num_dml_affected_rows / before - len(df2)
RowCount(d, d2) == Len(d) - Len(d2)

Unchanged(tbl, raised, n) ==
    [raised |-> raised, exists |-> tbl.exists, rows |-> tbl.rows, ret |-> n]

\* DELETE FROM <table> [WHERE <where_clause>] as one statement: the backend
\* rejects it when the table is missing or the predicate does not parse
DeleteFrom(tbl, pred, fault, counted) ==
    IF ~tbl.exists \/ pred.kind = "malformed" \/ fault = 1
    THEN Unchanged(tbl, TRUE, 0)
    ELSE LET left == IF HasWhere(pred) THEN Unmatched(tbl.rows, pred.matches)
                     ELSE <<>>
         IN  [raised |-> FALSE, exists |-> TRUE, rows |-> left,
              ret |-> IF counted THEN RowCount(tbl.rows, left) ELSE 0]

\* return res.rowcount if res.rowcount is not None else 0
SQLiteDeleteRows(tbl, pred, fault, counted) == DeleteFrom(tbl, pred, fault, TRUE)

RedshiftDeleteRows(tbl, pred, fault, counted) == DeleteFrom(tbl, pred, fault, TRUE)

\* return getattr(res, "num_dml_affected_rows", 0) or 0
BigQueryDeleteRows(tbl, pred, fault, counted) == DeleteFrom(tbl, pred, fault, counted)

\* cur.close(), then try: return int(res.rowcount) except Exception: return 0
SnowflakeDeleteRows(tbl, pred, fault, counted) == DeleteFrom(tbl, pred, fault, counted)

\* the object is read, filtered with DataFrame.query and written back whole;
\* a predicate that query rejects is swallowed (df2 = df)
S3DeleteRows(tbl, pred, fault, counted) ==
    IF ~tbl.bucket THEN Unchanged(tbl, FALSE, 0)
    ELSE IF ~tbl.exists THEN Unchanged(tbl, TRUE, 0)
    ELSE IF tbl.rows = <<>> THEN Unchanged(tbl, FALSE, 0)
    ELSE LET df_2 == CASE pred.kind = "where" -> Unmatched(tbl.rows, pred.matches)
                       [] pred.kind = "malformed" -> tbl.rows
                       [] OTHER -> <<>>
         IN  IF fault = 1 THEN Unchanged(tbl, TRUE, 0)
             ELSE [raised |-> FALSE, exists |-> TRUE, rows |-> df_2,
                   ret |-> RowCount(tbl.rows, df_2)]

delete_rows(kind, tbl, pred, fault, counted) ==
    CASE kind = "sqlite" -> SQLiteDeleteRows(tbl, pred, fault, counted)
      [] kind = "redshift" -> RedshiftDeleteRows(tbl, pred, fault, counted)
      [] kind = "bigquery" -> BigQueryDeleteRows(tbl, pred, fault, counted)
      [] kind = "snowflake" -> SnowflakeDeleteRows(tbl, pred, fault, counted)
      [] kind = "s3" -> S3DeleteRows(tbl, pred, fault, counted)

-----------------------------------------------------------------------------
(* The provider contract: connect, test_connection, has_permissions, close. *)
(* A provider object is [kind, configured, target, client, connected],      *)
(* kept together with what it has created on the backend:                   *)
(*   configured  the credentials are present and valid (sqlite: db_path)    *)
(*   target      the credentials name a dataset (bigquery) / bucket (s3)    *)
(*   client      self.conn / self.client / self.engine is not None          *)
(*   connected   self._connected                                            *)
(*   open        the backend session self.conn / self.client / self.engine  *)
(*               refers to is open                                          *)
(*   orphans     the open backend sessions this object opened and no longer *)
(*               refers to                                                  *)
(*   artifact    the disposable artifact of the write probe exists          *)
(*               (snowflake: in the session self.conn refers to)            *)
(* fail is the set of backend calls the backend rejects during one method.  *)

\* the backend calls made by connect / test_connection, by has_permissions
\* and by close
ConnectCalls == {"open", "select"}

ProbeCalls == {"open", "select", "create", "drop"}

CloseCalls == {"close"}

Capabilities == {"read", "write", "list"}

MaxOrphans == 1

Providers ==
    [kind : Backends, configured : BOOLEAN, target : BOOLEAN,
     client : {FALSE}, connected : {FALSE},
     open : {FALSE}, orphans : {0}, artifact : {FALSE}]

NoCall ==
    [op |-> "none", raised |-> FALSE, value |-> FALSE, fail |-> {},
     client0 |-> FALSE, requested |-> {}, caught |-> {}]

\* a backend call succeeds when the credentials are good and the backend
\* does not reject it
CallOk(p, fail, c) == p.configured /\ c \notin fail

\* no handler: the exception leaves the method
ExceptReraise(r, v) == r

\* try: ... except Exception: <result v>
Except(r, v) ==
    IF r.raised THEN [r EXCEPT !.raised = FALSE, !.value = v] ELSE r

\* self.conn = <new session> (self.client, self.engine): the attribute is
\* assigned without closing the session it referred to before, which stays
\* open, unreferenced, until the garbage collector finalizes it
Rebind(p, opened) ==
    [p EXCEPT !.client = TRUE, !.open = opened,
              !.orphans = IF p.open THEN @ + 1 ELSE @]

SQLiteConnect(p, fail) ==
    IF ~CallOk(p, fail, "open")
    THEN [raised |-> TRUE, prov |-> p]
    ELSE [raised |-> FALSE, prov |-> [Rebind(p, TRUE) EXCEPT !.connected = TRUE]]

BigQueryConnect(p, fail) ==
    IF ~p.configured
    THEN [raised |-> TRUE, prov |-> p]
    ELSE IF "open" \in fail
    THEN [raised |-> TRUE, prov |-> Rebind(p, TRUE)]
    ELSE [raised |-> FALSE, prov |-> [Rebind(p, TRUE) EXCEPT !.connected = TRUE]]

\* a temporary table lives in the session that created it: PERM_TEST is not
\* in a new session
SnowflakeConnect(p, fail) ==
    IF ~CallOk(p, fail, "open")
    THEN [raised |-> TRUE, prov |-> p]
    ELSE IF "select" \in fail
    THEN [raised |-> TRUE, prov |-> [Rebind(p, TRUE) EXCEPT !.artifact = FALSE]]
    ELSE [raised |-> FALSE,
          prov |-> [Rebind(p, TRUE) EXCEPT !.artifact = FALSE, !.connected = TRUE]]

\* create_engine opens nothing; engine.connect() opens a session, which goes
\* back to the pool of the engine, open, at the end of the with block
RedshiftConnect(p, fail) ==
    IF ~CallOk(p, fail, "open")
    THEN [raised |-> TRUE, prov |-> Rebind(p, FALSE)]
    ELSE IF "select" \in fail
    THEN [raised |-> TRUE, prov |-> Rebind(p, TRUE)]
    ELSE [raised |-> FALSE, prov |-> [Rebind(p, TRUE) EXCEPT !.connected = TRUE]]

S3Connect(p, fail) ==
    IF ~CallOk(p, fail, "open")
    THEN [raised |-> TRUE, prov |-> Rebind(p, TRUE)]
    ELSE [raised |-> FALSE, prov |-> [Rebind(p, TRUE) EXCEPT !.connected = TRUE]]

connect(p, fail) ==
    CASE p.kind = "sqlite" -> SQLiteConnect(p, fail)
      [] p.kind = "bigquery" -> BigQueryConnect(p, fail)
      [] p.kind = "snowflake" -> SnowflakeConnect(p, fail)
      [] p.kind = "redshift" -> RedshiftConnect(p, fail)
      [] p.kind = "s3" -> S3Connect(p, fail)

\* the body of the try block of test_connection: connect(), then on sqlite
\* and bigquery a SELECT 1 round trip, then return True
TestConnectionBody(p, fail) ==
    LET c == connect(p, fail)
        probe == p.kind \in {"sqlite", "bigquery"}
    IN  IF c.raised \/ (probe /\ ~CallOk(c.prov, fail, "select"))
        THEN [raised |-> TRUE, value |-> FALSE, prov |-> c.prov]
        ELSE [raised |-> FALSE, value |-> TRUE, prov |-> c.prov]

test_connection(p, fail) == Except(TestConnectionBody(p, fail), FALSE)

\* the read probe of has_permissions, inside its try block
ReadProbe(p, fail) ==
    CASE p.kind = "sqlite" ->
            [raised |-> ~CallOk(p, fail, "create"), value |-> TRUE]
      [] p.kind \in {"bigquery", "snowflake"} ->
            [raised |-> ~p.client \/ ~CallOk(p, fail, "select"), value |-> TRUE]
      [] p.kind = "redshift" ->
            [raised |-> ~p.client \/ ~CallOk(p, fail, "open")
                            \/ ~CallOk(p, fail, "select"),
             value |-> TRUE]
      [] p.kind = "s3" ->
            [raised |-> ~p.client
                            \/ ~CallOk(p, fail, IF p.target THEN "select" ELSE "open"),
             value |-> TRUE]

\* the write probe of has_permissions, inside its try block
WriteProbe(p, fail) ==
    CASE p.kind = "sqlite" ->
            [raised |-> ~CallOk(p, fail, "create"), value |-> TRUE]
      [] p.kind = "bigquery" ->
            IF p.target
            THEN [raised |-> ~p.client \/ ~CallOk(p, fail, "create")
                                 \/ ~CallOk(p, fail, "drop"),
                  value |-> TRUE]
            ELSE [raised |-> FALSE, value |-> TRUE]
      [] p.kind = "snowflake" ->
            [raised |-> ~p.client \/ p.artifact \/ ~CallOk(p, fail, "create")
                            \/ ~CallOk(p, fail, "drop"),
             value |-> TRUE]
      [] p.kind = "redshift" ->
            [raised |-> ~p.client \/ ~CallOk(p, fail, "open")
                            \/ ~CallOk(p, fail, "select"),
             value |-> TRUE]
      [] p.kind = "s3" ->
            IF p.target
            THEN [raised |-> ~p.client \/ ~CallOk(p, fail, "create")
                                 \/ ~CallOk(p, fail, "drop"),
                  value |-> TRUE]
            ELSE [raised |-> FALSE, value |-> FALSE]

\* the backends whose write probe creates a disposable artifact and removes
\* it again: __perm_test (bigquery), PERM_TEST (snowflake),
\* __perm_test__.txt (s3)
ArtifactBackends == {"bigquery", "snowflake", "s3"}

\* whether the write probe gets as far as creating its artifact: the
\* snowflake CREATE TEMP TABLE has no IF NOT EXISTS and is refused when
\* PERM_TEST is there; create_table(exists_ok=True) and put_object are not
ArtifactCreated(p, fail) ==
    /\ p.kind \in ArtifactBackends
    /\ p.kind # "snowflake" => p.target
    /\ p.client
    /\ CallOk(p, fail, "create")
    /\ p.kind = "snowflake" => ~p.artifact

\* the removal is the statement after the creation, inside the same try: it
\* runs when the creation returned, and it can be rejected itself
Removed(p, fail) == CallOk(p, fail, "drop")

\* the artifact after the write probe of has_permissions
ProbeArtifact(p, fail) ==
    IF ArtifactCreated(p, fail) THEN ~Removed(p, fail) ELSE p.artifact

Probe(p, fail, a) == IF a = "read" THEN ReadProbe(p, fail) ELSE WriteProbe(p, fail)

\* the capabilities has_permissions probes: sqlite probes the requested ones
\* among read and write, the other backends always probe both
Probed(p, actions) ==
    IF p.kind = "sqlite" THEN actions \cap {"read", "write"} ELSE {"read", "write"}

\* the backend calls has_permissions makes on the backend of p
ProbeCallsOf(p) ==
    CASE p.kind = "sqlite" -> {"create"}
      [] p.kind = "redshift" -> {"open", "select"}
      [] p.kind \in {"bigquery", "snowflake"} -> {"select", "create", "drop"}
      [] p.kind = "s3" -> {IF p.target THEN "select" ELSE "open", "create", "drop"}

\* has_permissions(actions): each probe in its own try / except -> False;
\* a capability that was not probed is reported True
has_permissions(p, fail, actions) ==
    LET res == [a \in Probed(p, actions) |-> Except(Probe(p, fail, a), FALSE)]
    IN  [raised |-> \E a \in DOMAIN res : res[a].raised,
         value |-> [a \in actions |-> IF a \in DOMAIN res THEN res[a].value ELSE TRUE],
         caught |-> {a \in DOMAIN res : Probe(p, fail, a).raised},
         prov |-> IF "write" \in DOMAIN res
                  THEN [p EXCEPT !.artifact = ProbeArtifact(p, fail)]
                  ELSE p]

\* close(): sqlite / snowflake close the connection in try / finally,
\* redshift disposes the engine first, bigquery / s3 only clear the flag
\* close has no except clause: what conn.close() / engine.dispose() raises
\* leaves close (sqlite, snowflake: after the finally block has cleared the
\* flag).  A session ends with its connection: so does the PERM_TEST it holds.
close(p, fail) ==
    CASE p.kind \in {"sqlite", "snowflake"} ->
            IF p.client /\ "close" \in fail
            THEN [raised |-> TRUE, prov |-> [p EXCEPT !.connected = FALSE]]
            ELSE [raised |-> FALSE,
                  prov |-> [p EXCEPT !.connected = FALSE, !.open = FALSE,
                                     !.artifact = IF p.kind = "snowflake"
                                                  THEN FALSE ELSE @]]
      [] p.kind = "redshift" ->
            IF p.client /\ "close" \in fail
            THEN [raised |-> TRUE, prov |-> p]
            ELSE [raised |-> FALSE,
                  prov |-> [p EXCEPT !.connected = FALSE, !.open = FALSE]]
      [] p.kind \in {"bigquery", "s3"} ->
            [raised |-> FALSE, prov |-> [p EXCEPT !.connected = FALSE]]

-----------------------------------------------------------------------------
(* migrate_table(source, dest, table_name, chunk_size)                     *)

\* a slice one row too long: df.iloc[a : a + n + 1]
IlocOverlap(d, a, n) == SubSeq(d, a + 1, Min(a + n + 1, Len(d)))

\* df.iloc[a : a + n]
Iloc(d, a, n) == SubSeq(d, a + 1, Min(a + n, Len(d)))

SourceTables ==
    {[exists |-> FALSE, rows |-> <<>>]}
        \cup {[exists |-> TRUE, rows |-> r] : r \in SeqsUpTo(MaxSrcLen)}

DestTables ==
    {[kind |-> k, exists |-> e, rows |-> r] :
        k \in Backends, e \in BOOLEAN, r \in {<<>>, <<"C">>}}
        \ {[kind |-> k, exists |-> FALSE, rows |-> <<"C">>] : k \in Backends}

ChunkSizes == (-1)..MaxChunk

\* no quality check or correction is running
QualityIdle ==
    /\ table = [kind |-> "sqlite", exists |-> FALSE, rows |-> <<>>]
    /\ qpc = "off"
    /\ analyzed = <<>>
    /\ report = <<>>
    /\ before = <<>>
    /\ df2 = <<>>
    /\ fixed = <<>>

\* no migration is running
MigrateIdle ==
    /\ source = [exists |-> FALSE, rows |-> <<>>]
    /\ dest = [kind |-> "sqlite", exists |-> FALSE, rows |-> <<>>]
    /\ dest0 = dest
    /\ chunk_size = 0
    /\ pc = "off"
    /\ df = <<>>
    /\ i = 0
    /\ total = 0
    /\ calls = <<>>
    /\ reads = 0
    /\ ret = <<>>

NoOp ==
    [name |-> "none", if_exists |-> "none", data |-> <<>>,
     pred |-> [kind |-> "none", matches |-> {}], fault |-> 0, counted |-> FALSE,
     raised |-> FALSE, ret |-> 0,
     old |-> [exists |-> FALSE, rows |-> <<>>], again |-> FALSE]

\* no table is operated on
TableIdle ==
    /\ store = [kind |-> "sqlite", bucket |-> TRUE, exists |-> FALSE, rows |-> <<>>]
    /\ tcall = NoOp

\* no provider object was made
NoProvider ==
    [kind |-> "sqlite", configured |-> FALSE, target |-> FALSE,
     client |-> FALSE, connected |-> FALSE,
     open |-> FALSE, orphans |-> 0, artifact |-> FALSE]

\* no page runs
AppIdle ==
    /\ page = "none"
    /\ apc = "off"
    /\ pending = "none"
    /\ log = <<>>
    /\ dst = NoProvider
    /\ released = {}

\* no provider object is under test
ProviderIdle ==
    /\ prov = [kind |-> "sqlite", configured |-> FALSE, target |-> FALSE,
               client |-> FALSE, connected |-> FALSE,
               open |-> FALSE, orphans |-> 0, artifact |-> FALSE]
    /\ last = NoCall

InitMigrate ==
    /\ TableIdle
    /\ QualityIdle
    /\ ProviderIdle
    /\ AppIdle
    /\ source \in SourceTables
    /\ dest \in DestTables
    /\ dest0 = dest
    /\ chunk_size \in ChunkSizes
    /\ pc = "start"
    /\ df = <<>>
    /\ i = 0
    /\ total = 0
    /\ calls = <<>>
    /\ reads = 0
    /\ ret = <<>>

\* df = source.read_table(table_name), and the branch taken on df
MigrateRead ==
    /\ pc = "start"
    /\ source.exists
    /\ reads' = reads + 1
    /\ df' = source.rows
    /\ pc' = IF df' = <<>> THEN "empty"
             ELSE IF Len(df') <= chunk_size THEN "whole" ELSE "loop"
    /\ UNCHANGED <<source, dest, dest0, chunk_size, i, total, calls, ret, nonMigrate>>

\* source.read_table raises (the table is missing on the source)
MigrateReadRaise ==
    /\ pc = "start"
    /\ ~source.exists
    /\ reads' = reads + 1
    /\ pc' = "raised"
    /\ UNCHANGED <<source, dest, dest0, chunk_size, df, i, total, calls, ret, nonMigrate>>

\* the recordset handed to the next dest.write_table call
NextChunk ==
    IF pc = "loop" THEN Iloc(df, i, chunk_size) ELSE df

\* dest.write_table(table_name, <chunk>, if_exists="append") is called
MigrateCall ==
    /\ \/ pc \in {"empty", "whole"}
       \/ pc = "loop" /\ chunk_size > 0 /\ i < Len(df)
    /\ calls' = Append(calls, [data |-> NextChunk, if_exists |-> "append",
                               from |-> pc, status |-> "pending",
                               fault |-> 0])
    /\ pc' = "writing"
    /\ UNCHANGED <<source, dest, dest0, chunk_size, df, i, total, reads, ret, nonMigrate>>

Last(s) == s[Len(s)]

Settle(s, st, f) == [s EXCEPT ![Len(s)].status = st, ![Len(s)].fault = f]

\* total = dest.write_table(...): the running total is overwritten
AccumulateOverwrite(t, n) == n

\* total += dest.write_table(...)
Accumulate(t, n) == t + n

\* the next value of range(0, len(df), chunk_size)
RangeNext(a, step) == a + step

\* where migrate_table continues after a write_table call has returned
AfterWrite(from) ==
    IF from = "loop" THEN "loop" ELSE "return"

\* the pending dest.write_table call returns
MigrateWriteReturn ==
    /\ pc = "writing"
    /\ LET c == Last(calls)
           w == write_table(dest.kind, dest, c.data, c.if_exists, 0)
       IN  /\ ~w.raised
           /\ dest' = [kind |-> dest.kind, exists |-> w.exists, rows |-> w.rows]
           /\ total' = IF c.from = "empty" THEN total ELSE Accumulate(total, w.ret)
           /\ i' = IF c.from = "loop" THEN RangeNext(i, chunk_size) ELSE i
           /\ pc' = AfterWrite(c.from)
           /\ calls' = Settle(calls, "ok", 0)
    /\ UNCHANGED <<source, dest0, chunk_size, df, reads, ret, nonMigrate>>

\* a handler that swallows the exception and goes on with the next chunk
OnWriteErrorContinue(from, a, step) ==
    [pc |-> AfterWrite(from), i |-> IF from = "loop" THEN a + step ELSE a]

\* a handler that issues the failed write again
OnWriteErrorRetry(from, a, step) == [pc |-> from, i |-> a]

\* migrate_table has no handler around dest.write_table: the exception
\* leaves the function
OnWriteError(from, a, step) == [pc |-> "raised", i |-> a]

\* the pending dest.write_table call raises
MigrateWriteRaise ==
    /\ pc = "writing"
    /\ LET c == Last(calls)
       IN  \E f \in {0} \cup WriteFaults(dest.kind, c.if_exists) :
             LET w == write_table(dest.kind, dest, c.data, c.if_exists, f)
                 h == OnWriteError(c.from, i, chunk_size)
             IN  /\ w.raised
                 /\ dest' = [kind |-> dest.kind, exists |-> w.exists, rows |-> w.rows]
                 /\ pc' = h.pc
                 /\ i' = h.i
                 /\ calls' = Settle(calls, "raised", f)
    /\ UNCHANGED <<source, dest0, chunk_size, df, total, reads, ret, nonMigrate>>

\* range(0, len(df), chunk_size) is exhausted (at once when chunk_size < 0)
MigrateLoopEnd ==
    /\ pc = "loop"
    /\ \/ chunk_size < 0
       \/ chunk_size > 0 /\ i >= Len(df)
    /\ pc' = "return"
    /\ UNCHANGED <<source, dest, dest0, chunk_size, df, i, total, calls, reads, ret, nonMigrate>>

\* range(0, len(df), 0) raises ValueError
MigrateRangeError ==
    /\ pc = "loop"
    /\ chunk_size = 0
    /\ pc' = "raised"
    /\ UNCHANGED <<source, dest, dest0, chunk_size, df, i, total, calls, reads, ret, nonMigrate>>

\* return 0 (empty source) / return total
MigrateReturn ==
    /\ pc = "return"
    /\ ret' = <<total>>
    /\ pc' = "returned"
    /\ UNCHANGED <<source, dest, dest0, chunk_size, df, i, total, calls, reads, nonMigrate>>

NextMigrate ==
    \/ MigrateRead
    \/ MigrateReadRaise
    \/ MigrateCall
    \/ MigrateWriteReturn
    \/ MigrateWriteRaise
    \/ MigrateLoopEnd
    \/ MigrateRangeError
    \/ MigrateReturn

SpecMigrate == InitMigrate /\ [][NextMigrate]_vars

-----------------------------------------------------------------------------
(* Properties of migrate_table *)

RECURSIVE Concat(_)
Concat(cs) == IF cs = <<>> THEN <<>> ELSE Concat(SubSeq(cs, 1, Len(cs) - 1)) \o Last(cs).data

\* no backend call was made to fail by the environment
NoInjectedFault == \A k \in 1..Len(calls) : calls[k].fault = 0

CeilDiv(n, c) == (n + c - 1) \div c

\* C1: for a non-empty source and a chunk size of at least 1 (smaller than,
\* equal to or larger than the table), a migrate_table call that returns (no
\* write raised) returns exactly the number of rows of the source table.
C1_RowsTransferred ==
    (pc = "returned" /\ source.rows # <<>> /\ chunk_size >= 1)
        => ret = <<Len(source.rows)>>

\* a returned migration of 4 rows in chunks of 3 (two writes)
C1_Witness ==
    /\ pc = "returned"
    /\ Len(source.rows) = 4
    /\ chunk_size = 3
    /\ Len(calls) = 2
    /\ ret = <<4>>

\* C2 (as claimed): on an empty source, and with no backend call made to
\* fail, migrate_table issues exactly one write_table call (append, empty
\* recordset), returns 0 and the destination table exists afterwards, on
\* every destination backend, also when the table did not exist before.
C2_EmptySourceCreates ==
    (pc \in {"returned", "raised"} /\ source.exists /\ source.rows = <<>>
        /\ NoInjectedFault)
        => /\ pc = "returned"
           /\ Len(calls) = 1
           /\ calls[1].data = <<>>
           /\ calls[1].if_exists = "append"
           /\ ret = <<0>>
           /\ dest.exists

\* C3: for n > 0 source rows and chunk size c > 0, a migrate_table call that
\* returns has read the source exactly once and issued exactly ceil(n/c)
\* writes, each of at most c rows, all but the last of exactly c rows, whose
\* concatenation in call order is the source rows in source order.
C3_ChunkedWrites ==
    (pc = "returned" /\ source.rows # <<>> /\ chunk_size > 0)
        => /\ reads = 1
           /\ Len(calls) = CeilDiv(Len(source.rows), chunk_size)
           /\ \A k \in 1..Len(calls) :
                /\ Len(calls[k].data) <= chunk_size
                /\ calls[k].if_exists = "append"
                /\ k < Len(calls) => Len(calls[k].data) = chunk_size
           /\ Concat(calls) = source.rows

\* 4 rows in chunks of 3: writes of 3 rows and 1 row
C3_Witness ==
    /\ pc = "returned"
    /\ Len(source.rows) = 4
    /\ chunk_size = 3
    /\ Len(calls) = 2
    /\ Len(calls[1].data) = 3
    /\ Len(calls[2].data) = 1

\* C4: a write is attempted only after every earlier write has returned
\* successfully, at most one write is in progress at any time, and the k-th
\* write carries the k-th chunk of the source.
C4_SequentialWrites ==
    /\ \A k \in 1..Len(calls) : k < Len(calls) => calls[k].status = "ok"
    /\ Cardinality({k \in 1..Len(calls) : calls[k].status = "pending"}) <= 1
    /\ (pc = "writing") <=> (calls # <<>> /\ Last(calls).status = "pending")
    /\ \A k \in 1..Len(calls) :
         calls[k].from = "loop"
             => calls[k].data = SubSeq(df, (k - 1) * chunk_size + 1,
                                       Min(k * chunk_size, Len(df)))

\* the third chunk is in progress after two chunks were written
C4_Witness ==
    /\ pc = "writing"
    /\ Len(calls) = 3
    /\ calls[1].status = "ok"
    /\ calls[2].status = "ok"
    /\ calls[3].status = "pending"

C22_NeverFewerRows ==
    (pc = "returned" /\ source.rows # <<>>)
        => /\ ret = <<Len(source.rows)>>
           /\ \A k \in 1..Len(calls) : calls[k].status = "ok"
           /\ Concat(calls) = source.rows
           /\ dest.rows = dest0.rows \o source.rows

-----------------------------------------------------------------------------
(* check_table_quality(provider, table_name) and                           *)
(* apply_corrections(provider, table_name)                                 *)

\* df.duplicated(keep=False): every row that occurs more than once is marked
DuplicatedKeepNone(d) ==
    [k \in 1..Len(d) |-> \E j \in 1..Len(d) : j # k /\ d[j] = d[k]]

\* df.duplicated(keep="first"): a row is marked when an earlier row equals it
Duplicated(d) ==
    [k \in 1..Len(d) |-> \E j \in 1..(k - 1) : d[j] = d[k]]

\* df.duplicated(keep="last"): a row is marked when a later row equals it
DuplicatedKeepLast(d) ==
    [k \in 1..Len(d) |-> \E j \in (k + 1)..Len(d) : d[j] = d[k]]

\* the rows of d that mask does not mark, in the order of d
RECURSIVE Unmarked(_, _)
Unmarked(d, mask) ==
    IF d = <<>> THEN <<>>
    ELSE LET n == Len(d)
             head == Unmarked(SubSeq(d, 1, n - 1), SubSeq(mask, 1, n - 1))
         IN  IF mask[n] THEN head ELSE Append(head, d[n])

\* df.drop_duplicates(keep="last").reset_index(drop=True)
DropDuplicatesKeepLast(d) == Unmarked(d, DuplicatedKeepLast(d))

\* df.drop_duplicates(keep="first").reset_index(drop=True)
DropDuplicates(d) == Unmarked(d, Duplicated(d))

\* int(df.duplicated(keep="first").sum())
DuplicateCount(d) == Cardinality({k \in 1..Len(d) : Duplicated(d)[k]})

\* the report of check_table_quality for the recordset d
QualityReport(d) ==
    [rows |-> Len(d),
     duplicates |-> IF d = <<>> THEN 0 ELSE DuplicateCount(d)]

\* before - len(df2)
RowsRemoved(d, d2) == Len(d) - Len(d2)

\* len(df2): the size of the deduplicated recordset is returned instead
RowsKept(d, d2) == Len(d2)

\* the value apply_corrections returns
Corrections(d, d2) == RowsRemoved(d, d2)

ProviderTables ==
    {[kind |-> k, exists |-> FALSE, rows |-> <<>>] : k \in Backends}
        \cup {[kind |-> k, exists |-> TRUE, rows |-> r] :
                 k \in Backends, r \in SeqsUpTo(MaxTblLen)}

InitQuality ==
    /\ TableIdle
    /\ MigrateIdle
    /\ ProviderIdle
    /\ AppIdle
    /\ table \in ProviderTables
    /\ qpc = "idle"
    /\ analyzed = <<>>
    /\ report = <<>>
    /\ before = <<>>
    /\ df2 = <<>>
    /\ fixed = <<>>

\* check_table_quality returns its report
CheckTableQuality ==
    /\ qpc = "idle"
    /\ table.exists
    /\ analyzed' = table.rows
    /\ report' = <<QualityReport(table.rows)>>
    /\ UNCHANGED <<table, qpc, before, df2, fixed, nonQuality>>

\* provider.read_table raises in check_table_quality or apply_corrections
\* (the table is missing)
ReadTableRaise ==
    /\ qpc = "idle"
    /\ ~table.exists
    /\ qpc' = "raised"
    /\ UNCHANGED <<table, analyzed, report, before, df2, fixed, nonQuality>>

\* apply_corrections: df = provider.read_table(table_name); an empty table
\* returns 0 at once, otherwise df2 is computed
ApplyRead ==
    /\ qpc = "idle"
    /\ table.exists
    /\ before' = table.rows
    /\ IF table.rows = <<>>
       THEN /\ fixed' = <<0>>
            /\ df2' = <<>>
            /\ qpc' = "idle"
       ELSE /\ df2' = DropDuplicates(table.rows)
            /\ fixed' = <<>>
            /\ qpc' = "delete"
    /\ UNCHANGED <<table, analyzed, report, nonQuality>>

\* apply_corrections: provider.delete_table(table_name)
ApplyDelete ==
    /\ qpc = "delete"
    /\ \E f \in {0, 1} :
         LET r == delete_table(table.kind, table, f)
         IN  /\ table' = [kind |-> table.kind, exists |-> r.exists, rows |-> r.rows]
             /\ qpc' = IF r.raised THEN "delete_raised" ELSE "write"
    /\ UNCHANGED <<analyzed, report, before, df2, fixed, nonQuality>>

\* apply_corrections: provider.write_table(table_name, df2, if_exists="replace")
\* and, when it returns, return before - len(df2)
ApplyWrite ==
    /\ qpc = "write"
    /\ \E f \in {0} \cup WriteFaults(table.kind, "replace") :
         LET w == write_table(table.kind, table, df2, "replace", f)
         IN  /\ table' = [kind |-> table.kind, exists |-> w.exists, rows |-> w.rows]
             /\ IF w.raised
                THEN /\ qpc' = "write_raised"
                     /\ fixed' = fixed
                ELSE /\ qpc' = "idle"
                     /\ fixed' = <<Corrections(before, df2)>>
    /\ UNCHANGED <<analyzed, report, before, df2, nonQuality>>

NextQuality ==
    \/ CheckTableQuality
    \/ ReadTableRaise
    \/ ApplyRead
    \/ ApplyDelete
    \/ ApplyWrite

SpecQuality == InitQuality /\ [][NextQuality]_vars

-----------------------------------------------------------------------------
(* Properties of check_table_quality and apply_corrections *)

\* d with the rows at positions a and b exchanged
Swap(d, a, b) == [d EXCEPT ![a] = d[b], ![b] = d[a]]

\* the position of the first row of d equal to x
FirstIndex(d, x) == CHOOSE k \in 1..Len(d) : d[k] = x /\ \A j \in 1..(k - 1) : d[j] # x

\* t holds each distinct row of d once, in the order of their first
\* occurrences in d
IsFirstOccurrences(t, d) ==
    /\ \A a, b \in 1..Len(t) : a # b => t[a] # t[b]
    /\ Range(t) = Range(d)
    /\ \A a, b \in 1..Len(t) : a < b => FirstIndex(d, t[a]) < FirstIndex(d, t[b])

\* C6: the duplicates count check_table_quality reports is N minus the number
\* of distinct rows of the table it read, and the count is the same when any
\* two rows of that table are exchanged (every reordering is a product of
\* such exchanges, and every table up to MaxTblLen rows is analysed).
C6_DuplicatesCount ==
    report # <<>>
        => /\ report[1].rows = Len(analyzed)
           /\ report[1].duplicates = Len(analyzed) - Cardinality(Range(analyzed))
           /\ \A a, b \in 1..Len(analyzed) :
                QualityReport(Swap(analyzed, a, b)).duplicates = report[1].duplicates

\* a report on a table whose first row recurs twice among four rows
C6_Witness ==
    /\ report # <<>>
    /\ analyzed = <<"B", "A", "B", "B">>
    /\ report[1].duplicates = 2

\* C7: after apply_corrections has returned, the table holds exactly the
\* first occurrence of each distinct row of the original table in the original
\* relative order, its row count is the original count minus the duplicates
\* count check_table_quality computes for the original table, the returned
\* value is that duplicates count, and check_table_quality on the resulting
\* table reports duplicates = 0.
C7_CorrectionsRemoveDuplicates ==
    (qpc = "idle" /\ fixed # <<>>)
        => /\ table.exists
           /\ IsFirstOccurrences(table.rows, before)
           /\ Len(table.rows) = Len(before) - QualityReport(before).duplicates
           /\ fixed = <<QualityReport(before).duplicates>>
           /\ QualityReport(table.rows).duplicates = 0
           /\ (report # <<>> /\ analyzed = table.rows) => report[1].duplicates = 0

\* corrections removed two of four rows, and the table was analysed again
C7_Witness ==
    /\ qpc = "idle"
    /\ Len(before) = 4
    /\ fixed = <<2>>
    /\ Len(table.rows) = 2
    /\ report # <<>>
    /\ analyzed = table.rows

ABACB == <<"A", "B", "A", "C", "B">>

\* C8 (as claimed): for the table [A,B,A,C,B] check_table_quality reports
\* duplicates = 2, and apply_corrections returns 3 and leaves [A,B,C].
C8_ScenarioReturnsThree ==
    /\ (report # <<>> /\ analyzed = ABACB) => report[1].duplicates = 2
    /\ (qpc = "idle" /\ fixed # <<>> /\ before = ABACB)
           => (fixed = <<3>> /\ table.rows = <<"A", "B", "C">>)

\* C8 (amended): for the table [A,B,A,C,B] check_table_quality reports
\* duplicates = 2, and apply_corrections returns 2 (the number of rows
\* removed) and leaves [A,B,C] in that order.
C8_ScenarioReturnsTwo ==
    /\ (report # <<>> /\ analyzed = ABACB) => report[1].duplicates = 2
    /\ (qpc = "idle" /\ fixed # <<>> /\ before = ABACB)
           => (fixed = <<2>> /\ table.rows = <<"A", "B", "C">>)

\* [A,B,A,C,B] was analysed and then corrected
C8_Witness ==
    /\ qpc = "idle"
    /\ analyzed = ABACB
    /\ report # <<>>
    /\ before = ABACB
    /\ fixed # <<>>
    /\ table.rows = <<"A", "B", "C">>

\* C20 (as claimed): apply_corrections on a non-empty table calls
\* delete_table first and write_table with the deduplicated rows in replace
\* mode after it has returned; when that write raises, apply_corrections ends
\* with the error, returns nothing, and the table is absent.
C20_FailedRewriteLeavesAbsent ==
    /\ qpc = "write"
         => (~table.exists /\ before # <<>> /\ df2 = DropDuplicates(before))
    /\ qpc = "write_raised"
         => (~table.exists /\ fixed = <<>>)

-----------------------------------------------------------------------------
(* A table of a connected provider driven through write_table, delete_rows *)
(* and delete_table.  bucket: the credentials name the bucket (s3).        *)

StoreTables ==
    {[kind |-> k, bucket |-> TRUE, exists |-> FALSE, rows |-> <<>>] : k \in Backends}
        \cup {[kind |-> "s3", bucket |-> FALSE, exists |-> FALSE, rows |-> <<>>]}
        \cup {[kind |-> k, bucket |-> TRUE, exists |-> TRUE, rows |-> r] :
                 k \in Backends, r \in SeqsUpTo(MaxStoreLen)}

InitTable ==
    /\ MigrateIdle
    /\ QualityIdle
    /\ ProviderIdle
    /\ AppIdle
    /\ store \in StoreTables
    /\ tcall = NoOp

\* every backend call write_table makes, those whose exception it swallows
\* (bigquery: client.delete_table in replace mode; s3: the read of the
\* existing object in append mode) included
WriteCalls(kind, if_exists) ==
    WriteFaults(kind, if_exists)
        \cup (IF kind = "bigquery" THEN {1} ELSE {})
        \cup (IF kind = "s3" /\ if_exists = "append" THEN {1} ELSE {})

\* the table after a call with result r
After(r) ==
    [kind |-> store.kind, bucket |-> store.bucket, exists |-> r.exists, rows |-> r.rows]

Before == [exists |-> store.exists, rows |-> store.rows]

TableCall(name, if_exists, data, pred, fault, counted, r, n) ==
    [name |-> name, if_exists |-> if_exists, data |-> data, pred |-> pred,
     fault |-> fault, counted |-> counted, raised |-> r.raised, ret |-> n,
     old |-> Before,
     again |-> tcall.name = name /\ ~tcall.raised]

\* provider.write_table(table_name, df, if_exists); s3 raises ValueError when
\* the credentials name no bucket
TableWrite ==
    /\ \E data \in SeqsUpTo(MaxDataLen), if_exists \in {"append", "replace"} :
         /\ Len(store.rows) + Len(data) <= MaxStoreLen
         /\ \E fault \in {0} \cup WriteCalls(store.kind, if_exists) :
              LET w == IF store.bucket
                       THEN write_table(store.kind, store, data, if_exists, fault)
                       ELSE Unchanged(store, TRUE, 0)
              IN  /\ store' = After(w)
                  /\ tcall' = TableCall("write_table", if_exists, data, NoOp.pred,
                                        fault, FALSE, w, w.ret)
    /\ UNCHANGED nonTable

\* provider.delete_rows(table_name, where_clause)
TableDeleteRows ==
    /\ \E pred \in Predicates, fault \in {0, 1},
          counted \in IF store.kind \in {"bigquery", "snowflake"}
                      THEN BOOLEAN ELSE {TRUE} :
         LET r == delete_rows(store.kind, store, pred, fault, counted)
         IN  /\ store' = After(r)
             /\ tcall' = TableCall("delete_rows", "none", <<>>, pred, fault,
                                   counted, r, r.ret)
    /\ UNCHANGED nonTable

\* provider.delete_table(table_name); s3 returns at once when the credentials
\* name no bucket
TableDeleteTable ==
    /\ \E fault \in IF store.bucket THEN {0, 1} ELSE {0} :
         LET r == IF store.bucket THEN delete_table(store.kind, store, fault)
                  ELSE [raised |-> FALSE, exists |-> store.exists, rows |-> store.rows]
         IN  /\ store' = After(r)
             /\ tcall' = TableCall("delete_table", "none", <<>>, NoOp.pred, fault,
                                   FALSE, r, 0)
    /\ UNCHANGED nonTable

NextTable ==
    \/ TableWrite
    \/ TableDeleteRows
    \/ TableDeleteTable

SpecTable == InitTable /\ [][NextTable]_vars

\* C15 (as claimed): a write_table call on a target that is absent, in append
\* or replace mode and on any backend, with no backend call made to fail,
\* returns, and the target exists afterwards and holds the input rows.
C15_WriteCreatesAbsent ==
    (tcall.name = "write_table" /\ ~tcall.old.exists /\ store.bucket
        /\ tcall.fault = 0)
        => /\ ~tcall.raised
           /\ store.exists
           /\ store.rows = tcall.data

\* C16 (as claimed): a write_table call that returns, returns the number of
\* rows of its input recordset; after an append the table holds its earlier
\* rows followed by the input rows, and after a replace exactly the input
\* rows and none of the earlier ones.
C16_WriteReturnsInputCount ==
    (tcall.name = "write_table" /\ ~tcall.raised)
        => /\ tcall.ret = Len(tcall.data)
           /\ tcall.if_exists = "append"
                => store.rows = Existing(tcall.old) \o tcall.data
           /\ tcall.if_exists = "replace" => store.rows = tcall.data

\* C17: a delete_table call that the backend does not make fail raises
\* nothing and leaves the table absent; on a table that does not exist it
\* changes nothing, and a second call in a row changes nothing and raises
\* nothing either.
C17_DeleteTableIdempotent ==
    (tcall.name = "delete_table" /\ tcall.fault = 0)
        => /\ ~tcall.raised
           /\ ~store.exists
           /\ store.rows = <<>>
           /\ ~tcall.old.exists => Before = tcall.old
           /\ tcall.again => Before = tcall.old
           /\ LET r == delete_table(store.kind, store, 0)
              IN  ~r.raised /\ r.exists = store.exists /\ r.rows = store.rows

\* delete_table was called twice in a row on an object store
C17_Witness ==
    /\ tcall.name = "delete_table"
    /\ tcall.again
    /\ ~tcall.raised
    /\ ~tcall.old.exists
    /\ store.kind = "s3"
    /\ store.bucket

\* C18 (as claimed): on every backend a delete_rows call with a malformed
\* predicate raises instead of returning a count, and leaves the table as it
\* was.
C18_MalformedPredicateRaises ==
    (tcall.name = "delete_rows" /\ tcall.pred.kind = "malformed"
        /\ tcall.old.exists)
        => (tcall.raised /\ Before = tcall.old)

\* C19: a delete_rows call that returns has, with no predicate or a blank
\* one, left the table without rows; with a well-formed predicate, removed
\* exactly the rows the predicate is true of and kept the others in order;
\* and the count it returns is the number of rows deleted or 0, never more
\* than the number deleted.
C19_DeleteRowsCount ==
    (tcall.name = "delete_rows" /\ ~tcall.raised)
        => LET deleted == Len(tcall.old.rows) - Len(store.rows)
               hit == {k \in 1..Len(tcall.old.rows) :
                          tcall.old.rows[k] \in tcall.pred.matches}
           IN  /\ ~HasWhere(tcall.pred) => store.rows = <<>>
               /\ tcall.pred.kind = "where"
                    => /\ Range(store.rows) \cap tcall.pred.matches = {}
                       /\ deleted = Cardinality(hit)
                       /\ store.rows = Unmatched(tcall.old.rows, tcall.pred.matches)
               /\ tcall.ret \in {0, deleted}
               /\ tcall.ret <= deleted
               /\ (tcall.counted /\ store.kind # "s3") => tcall.ret = deleted

\* two of three rows were deleted by a predicate on a backend that reported
\* no count
C19_Witness ==
    /\ tcall.name = "delete_rows"
    /\ ~tcall.raised
    /\ store.kind = "snowflake"
    /\ tcall.pred = [kind |-> "where", matches |-> {"A"}]
    /\ tcall.old.rows = <<"A", "B", "A">>
    /\ store.rows = <<"B">>
    /\ tcall.ret = 0

\* C21 (as claimed): on object storage a write_table call in append mode
\* either raises and leaves the object as it was, or returns and leaves the
\* object holding its previous rows followed by the input rows in order (the
\* input rows alone when the object did not exist); the object never holds
\* only a part of these rows.
C21_S3AppendRewritesWhole ==
    (tcall.name = "write_table" /\ tcall.if_exists = "append"
        /\ store.kind = "s3" /\ store.bucket)
        => IF tcall.raised
           THEN Before = tcall.old
           ELSE /\ store.exists
                /\ store.rows = Existing(tcall.old) \o tcall.data

-----------------------------------------------------------------------------
(* A provider object driven through its connection and probing methods *)

InitProvider ==
    /\ TableIdle
    /\ MigrateIdle
    /\ QualityIdle
    /\ AppIdle
    /\ prov \in Providers
    /\ last = NoCall

CallRecord(op, r, v, fail, requested, caught) ==
    [op |-> op, raised |-> r, value |-> v, fail |-> fail,
     client0 |-> prov.client, requested |-> requested, caught |-> caught]

\* provider.connect()
ProviderConnect ==
    /\ prov.orphans < MaxOrphans
    /\ \E fail \in SUBSET ConnectCalls :
         LET r == connect(prov, fail)
         IN  /\ prov' = r.prov
             /\ last' = CallRecord("connect", r.raised, FALSE, fail, {}, {})
    /\ UNCHANGED nonProvider

\* provider.test_connection()
ProviderTestConnection ==
    /\ prov.orphans < MaxOrphans
    /\ \E fail \in SUBSET ConnectCalls :
         LET r == test_connection(prov, fail)
         IN  /\ prov' = r.prov
             /\ last' = CallRecord("test_connection", r.raised, r.value, fail, {}, {})
    /\ UNCHANGED nonProvider

\* provider.has_permissions(actions)
ProviderHasPermissions ==
    /\ \E fail \in SUBSET ProbeCallsOf(prov), actions \in SUBSET Capabilities :
         LET r == has_permissions(prov, fail, actions)
         IN  /\ prov' = r.prov
             /\ last' = CallRecord("has_permissions", r.raised, r.value, fail,
                                   actions, r.caught)
    /\ UNCHANGED nonProvider

\* the garbage collector finalizes a session the provider no longer refers
\* to, which closes it
ProviderCollect ==
    /\ prov.orphans > 0
    /\ prov' = [prov EXCEPT !.orphans = @ - 1]
    /\ UNCHANGED <<last, nonProvider>>

\* provider.close()
ProviderClose ==
    /\ \E fail \in SUBSET CloseCalls :
         LET r == close(prov, fail)
         IN  /\ prov' = r.prov
             /\ last' = CallRecord("close", r.raised, FALSE, fail, {}, {})
    /\ UNCHANGED nonProvider

NextProvider ==
    \/ ProviderConnect
    \/ ProviderTestConnection
    \/ ProviderHasPermissions
    \/ ProviderCollect
    \/ ProviderClose

SpecProvider == InitProvider /\ [][NextProvider]_vars

\* C10: test_connection and has_permissions never propagate a fault, on any
\* backend and in any provider state: test_connection returns a boolean, which
\* is false whenever the credentials are missing or invalid or the backend
\* rejects opening the session, and true only when the session is established;
\* has_permissions returns a boolean for every requested capability, false for
\* each capability whose probe raised, and on the backends that probe through
\* the session false for read when the provider was never connected.
C10_ProbesNeverRaise ==
    /\ last.op = "test_connection"
         => /\ ~last.raised
            /\ last.value \in BOOLEAN
            /\ (~prov.configured \/ "open" \in last.fail) => last.value = FALSE
            /\ last.value = TRUE => (prov.client /\ prov.connected)
    /\ last.op = "has_permissions"
         => /\ ~last.raised
            /\ DOMAIN last.value = last.requested
            /\ \A a \in last.requested : last.value[a] \in BOOLEAN
            /\ \A a \in last.requested : a \in last.caught => last.value[a] = FALSE
            /\ (prov.kind # "sqlite" /\ ~last.client0 /\ "read" \in last.requested)
                 => last.value["read"] = FALSE

\* has_permissions on a provider that was never connected, with a rejected
\* write probe: both capabilities are reported false
C10_Witness ==
    /\ last.op = "has_permissions"
    /\ prov.kind = "snowflake"
    /\ ~last.client0
    /\ last.requested = {"read", "write"}
    /\ last.caught = {"read", "write"}
    /\ last.value["read"] = FALSE
    /\ last.value["write"] = FALSE

\* C11 (as claimed): after has_permissions has returned, whether its probes
\* succeeded or failed at any step, the disposable artifact of the write probe
\* (__perm_test, __perm_test__.txt, PERM_TEST) does not exist on the backend.
C11_NoProbeResidue ==
    last.op = "has_permissions" => ~prov.artifact

\* the open backend sessions the provider has opened and not released
OpenSessions(p) == (IF p.open THEN 1 ELSE 0) + p.orphans

\* C13 (as claimed): after a connect or test_connection call that succeeded,
\* whatever calls of the two came before, the backend sessions the provider
\* has opened and that are open are exactly one, and after a close that
\* returned none of them is open.
C13_OneSessionPerProvider ==
    /\ (last.op = "connect" /\ ~last.raised) => OpenSessions(prov) = 1
    /\ (last.op = "test_connection" /\ last.value = TRUE) => OpenSessions(prov) = 1
    /\ (last.op = "close" /\ ~last.raised) => OpenSessions(prov) = 0

\* C14 (as claimed): close raises nothing and leaves the provider in the
\* not-connected state, on every backend and in every provider state: never
\* connected, connected, already closed.
C14_CloseNeverFails ==
    last.op = "close" => (~last.raised /\ ~prov.connected)

-----------------------------------------------------------------------------
(* The pages page_migrate, page_check, page_add and page_delete of the       *)
(* application.  The values of st.button and the outcomes of the provider   *)
(* calls are inputs.  prov is the provider of the page (src in              *)
(* page_migrate), dst the destination provider of page_migrate.             *)

Pages == {"migrate", "check", "add", "delete"}

InitApp ==
    /\ TableIdle
    /\ MigrateIdle
    /\ QualityIdle
    /\ page \in Pages
    /\ prov \in Providers
    /\ dst \in IF page = "migrate" THEN Providers ELSE {NoProvider}
    /\ released = {}
    /\ last = NoCall
    /\ apc = "start"
    /\ pending = "none"
    /\ log = <<>>

\* the mutating call is made whatever the probe reported
MayMutateAlways(perms) == TRUE

\* if not perms.get("write"): st.warning(...)  else: <mutating call>
MayMutate(perms) == "write" \in DOMAIN perms /\ perms["write"]

\* if not prov.test_connection(): st.error(...); return / st.stop()
PageTestConnection ==
    /\ apc = "start"
    /\ page # "migrate"
    /\ \E fail \in SUBSET ConnectCalls :
         LET r == test_connection(prov, fail)
         IN  /\ prov' = r.prov
             /\ last' = CallRecord("test_connection", r.raised, r.value, fail, {}, {})
             /\ apc' = IF r.raised \/ ~r.value THEN "done"
                       ELSE CASE page = "check" -> "analyze"
                              [] page = "add" -> "file"
                              [] page = "delete" -> "list"
    /\ UNCHANGED <<page, pending, log, dst, released, nonApp>>

\* page_migrate: ok_src = src.test_connection(); ok_dst = dst.test_connection();
\* if not ok_src or not ok_dst: st.error(...); return
MigrateTestConnections ==
    /\ apc = "start"
    /\ page = "migrate"
    /\ \E fs \in SUBSET ConnectCalls, fd \in SUBSET ConnectCalls :
         LET ok_src == test_connection(prov, fs)
             ok_dst == test_connection(dst, fd)
         IN  /\ prov' = ok_src.prov
             /\ dst' = ok_dst.prov
             /\ last' = CallRecord("test_connection", ok_dst.raised, ok_dst.value,
                                   fd, {}, {})
             /\ apc' = IF ~ok_src.value \/ ~ok_dst.value THEN "done" ELSE "preflight"
    /\ UNCHANGED <<page, pending, log, released, nonApp>>

\* page_migrate: perms_src = src.has_permissions(["read"]);
\* perms_dst = dst.has_permissions(["write"]); return when either is refused
MigratePreflight ==
    /\ apc = "preflight"
    /\ \E fs \in SUBSET ProbeCallsOf(prov), fd \in SUBSET ProbeCallsOf(dst) :
         LET perms_src == has_permissions(prov, fs, {"read"})
             perms_dst == has_permissions(dst, fd, {"write"})
         IN  /\ prov' = perms_src.prov
             /\ dst' = perms_dst.prov
             /\ last' = CallRecord("has_permissions", perms_dst.raised,
                                   perms_dst.value, fd, {"write"}, perms_dst.caught)
             /\ apc' = IF ~perms_src.value["read"] \/ ~perms_dst.value["write"]
                       THEN "done" ELSE "migrate"
    /\ UNCHANGED <<page, pending, log, released, nonApp>>

\* page_migrate: try: migrate_table(src, dst, table_name)
\* except Exception: st.error(...)  finally: src.close(); dst.close()
MigrateRun ==
    /\ apc = "migrate"
    /\ \E raises \in BOOLEAN : apc' = "close_src"
    /\ UNCHANGED <<page, pending, log, prov, dst, released, last, nonApp>>

\* page_migrate, finally block: src.close(); what it raises leaves the block
\* before dst.close()
MigrateCloseSrc ==
    /\ apc = "close_src"
    /\ \E fail \in SUBSET CloseCalls :
         LET r == close(prov, fail)
         IN  /\ prov' = r.prov
             /\ last' = CallRecord("close", r.raised, FALSE, fail, {}, {})
             /\ apc' = IF r.raised THEN "done" ELSE "close_dst"
    /\ released' = released \cup {"src"}
    /\ UNCHANGED <<page, pending, log, dst, nonApp>>

\* page_migrate, finally block: dst.close()
MigrateCloseDst ==
    /\ apc = "close_dst"
    /\ \E fail \in SUBSET CloseCalls :
         LET r == close(dst, fail)
         IN  /\ dst' = r.prov
             /\ last' = CallRecord("close", r.raised, FALSE, fail, {}, {})
    /\ released' = released \cup {"dst"}
    /\ apc' = "done"
    /\ UNCHANGED <<page, pending, log, prov, nonApp>>

\* page_add: if not file: st.error(...); return
AddFile ==
    /\ apc = "file"
    /\ \E file \in BOOLEAN : apc' = IF file THEN "add" ELSE "done"
    /\ UNCHANGED <<page, pending, log, prov, dst, released, last, nonApp>>

\* page_add: try: add_data_from_dataframe(prov, table_name, df)
\* except Exception: st.error(...)  finally: prov.close()
AddData ==
    /\ apc = "add"
    /\ \E raises \in BOOLEAN : apc' = "close"
    /\ UNCHANGED <<page, pending, log, prov, dst, released, last, nonApp>>

\* page_check: report = check_table_quality(prov, table_name); the button
\* "Aplicar correcoes" is shown when the report has duplicates
CheckAnalyze ==
    /\ apc = "analyze"
    /\ \E outcome \in {"raise", "clean", "duplicates"}, click \in BOOLEAN :
         IF outcome = "duplicates" /\ click
         THEN /\ pending' = "apply_corrections"
              /\ apc' = "probe"
         ELSE /\ pending' = pending
              /\ apc' = "close"
    /\ UNCHANGED <<page, log, prov, last, dst, released, nonApp>>

\* page_delete: tables = prov.list_tables(), the table sample
DeleteList ==
    /\ apc = "list"
    /\ \E outcome \in {"raise", "none", "some"} :
         apc' = CASE outcome = "raise" -> "done"
                  [] outcome = "none" -> "close"
                  [] outcome = "some" -> "buttons"
    /\ UNCHANGED <<page, pending, log, prov, last, dst, released, nonApp>>

\* page_delete: the buttons "Excluir tabela inteira" and "Excluir linhas";
\* at most one button is pressed in one run of the page
DeleteButtons ==
    /\ apc = "buttons"
    /\ \E click \in {"none", "delete_table", "delete_rows"} :
         IF click = "none"
         THEN /\ apc' = "close"
              /\ pending' = pending
         ELSE /\ apc' = "probe"
              /\ pending' = click
    /\ UNCHANGED <<page, log, prov, last, dst, released, nonApp>>

\* perms = prov.has_permissions(["write"]) and the branch on perms.get("write")
PageProbe ==
    /\ apc = "probe"
    /\ \E fail \in SUBSET ProbeCalls :
         LET r == has_permissions(prov, fail, {"write"})
         IN  /\ prov' = r.prov
             /\ last' = CallRecord("has_permissions", r.raised, r.value, fail,
                                   {"write"}, r.caught)
             /\ log' = Append(log, [kind |-> "probe", action |-> pending,
                                    write |-> r.value["write"]])
             /\ apc' = IF r.raised THEN (IF page = "check" THEN "close" ELSE "done")
                       ELSE IF MayMutate(r.value) THEN "mutate" ELSE "close"
    /\ UNCHANGED <<page, pending, dst, released, nonApp>>

\* apply_corrections(prov, table_name) / prov.delete_table(table) /
\* prov.delete_rows(table, where): page_check catches what it raises,
\* page_delete does not
PageMutate ==
    /\ apc = "mutate"
    /\ log' = Append(log, [kind |-> "call", action |-> pending, write |-> TRUE])
    /\ \E raises \in BOOLEAN :
         apc' = IF raises /\ page = "delete" THEN "done" ELSE "close"
    /\ UNCHANGED <<page, pending, prov, last, dst, released, nonApp>>

\* prov.close()
PageClose ==
    /\ apc = "close"
    /\ \E fail \in SUBSET CloseCalls :
         LET r == close(prov, fail)
         IN  /\ prov' = r.prov
             /\ last' = CallRecord("close", r.raised, FALSE, fail, {}, {})
    /\ released' = released \cup {"src"}
    /\ apc' = "done"
    /\ UNCHANGED <<page, pending, log, dst, nonApp>>

NextApp ==
    \/ PageTestConnection
    \/ MigrateTestConnections
    \/ MigratePreflight
    \/ MigrateRun
    \/ MigrateCloseSrc
    \/ MigrateCloseDst
    \/ AddFile
    \/ AddData
    \/ CheckAnalyze
    \/ DeleteList
    \/ DeleteButtons
    \/ PageProbe
    \/ PageMutate
    \/ PageClose

SpecApp == InitApp /\ [][NextApp]_vars

\* C12 (as claimed): when a page has ended, on whatever exit path (return
\* after a failed connection test or a refused probe, an exception of a
\* provider call, the normal path), close() was called on every provider of
\* the page that holds an open backend session; in page_migrate on both src
\* and dst, also when src.close() raised.
C12_ClosedOnEveryExit ==
    apc = "done"
        => /\ prov.open => "src" \in released
           /\ dst.open => "dst" \in released

MutatingActions == {"apply_corrections", "delete_table", "delete_rows"}

\* C9: every mutating call of a page (apply_corrections on the check page,
\* delete_table and delete_rows on the delete page) directly follows a
\* has_permissions(["write"]) probe for that action that reported write as
\* true, and a probe that reported write as false is followed by no mutating
\* call.
C9_ProbeGuardsMutation ==
    /\ \A k \in 1..Len(log) :
         log[k].kind = "call"
             => /\ log[k].action \in MutatingActions
                /\ k > 1
                /\ log[k - 1].kind = "probe"
                /\ log[k - 1].action = log[k].action
                /\ log[k - 1].write = TRUE
    /\ \A k \in 1..Len(log) :
         (log[k].kind = "probe" /\ log[k].write = FALSE)
             => /\ \A j \in (k + 1)..Len(log) : log[j].kind # "call"
                /\ apc # "mutate"
    /\ apc = "mutate" => (log # <<>> /\ Last(log).kind = "probe" /\ Last(log).write)

\* the delete page ended after a write probe that was refused, with no
\* mutating call
C9_Witness ==
    /\ page = "delete"
    /\ apc = "done"
    /\ log = <<[kind |-> "probe", action |-> "delete_rows", write |-> FALSE]>>

====
